---- MODULE Spec2Model ----
(***************************************************************************)
(* A model of the light controller of richardtguy/ibeacon.                 *)
(*                                                                         *)
(* Two subsystems are modelled:                                            *)
(*   - Controller.loop_once of src/jubilee/lights.py with the objects it   *)
(*     uses (UKTimeZone, DaylightSensor, _ActionHandler, Bridge);          *)
(*   - PresenceSensor of src/jubilee/ibeacon.py and src/jubilee/presence.py*)
(*     with its two threads (sighting ingestion and timeout sweep).        *)
(*                                                                         *)
(* Time is counted in hours.  A day has DayLen hours; instant t lies on    *)
(* day t \div DayLen at hour t % DayLen.  Day 0 of the time axis is the    *)
(* Saturday before the last Sunday of March, so that the start of British  *)
(* Summer Time lies inside the modelled horizon.                           *)
(***************************************************************************)
EXTENDS Integers, Sequences, FiniteSets, TLC

\* ------------------------------------------------------------------ bounds
\* the most beacons registered when query(beacon_owner) is asked
MaxBeacons == 3
\* hours in a day of the model
DayLen == 4
\* last instant the clock reaches
MaxTime == 9
\* last instant the clock reaches while the presence sensor is watched
MaxSensorTime == 2
\* PresenceSensor.scan_timeout, in steps of the clock
scan_timeout == 1
\* rule dispatches and callbacks followed at the Bridge
MaxDispatches == 1
MaxCallbacks == 2

VARIABLES
    clock,                \* wall clock (UTC), read by utcnow()/now()/today()
    \* ---- Controller (src/jubilee/lights.py)
    rules,                \* Controller.rules
    last_tick,            \* Controller.last_tick
    hue_ctl,              \* hue.Controller of src/hue.py: last_tick_daylight and its last tick
    hue_bridge,           \* hue.Bridge of src/hue.py with the threads of src/controller.py
    asked,                \* the call of PresenceSensor.query() under way, record by record
    loop,                 \* the call of loop_once under way, rule by rule (NoLoop: none)
    presence_sensor,      \* Controller.presence_sensor: "sensor", or "unset" (no such attribute)
    daylight_times,       \* DaylightSensor.daylight_times
    update_daylight_due,  \* DaylightSensor.update_daylight_due
    tick,                 \* what the last call of loop_once did
    prev_tick,            \* now and dispatches of the call before the last
    \* ---- PresenceSensor (src/jubilee/ibeacon.py, src/jubilee/presence.py)
    registered_beacons,   \* PresenceSensor.registered_beacons
    on,                   \* PresenceSensor.on
    lock,                 \* PresenceSensor.lock: "free" or the thread holding it
    scan_pc,              \* where the sighting thread stands
    scan_b,               \* _handle_message: index of `beacon` in the registry
    scan_was_in,          \* _handle_message: beacon['in'] as the handler found it
    sweep_pc,             \* where the thread of _loop stands
    sweep_now,            \* _loop: now
    sweep_i,              \* _loop: position of `for b in self.registered_beacons`
    beacons_found,        \* _loop: beacons_found
    beacons_found_last_loop, \* _loop: beacons_found_last_loop (Unbound before its first assignment)
    \* ---- what the sensor has done so far
    pass_occupied,        \* query() as it was when the current sweep pass began
    welcome_owed,         \* per beacon: changes of 'in' to True minus welcome callbacks
    bye_owed,             \* times the house became empty minus last-one-out callbacks
    welcome_log,          \* for each welcome callback made: was the beacon already in
    bye_log,              \* for each last-one-out callback made: the occupancy before it
    \* ---- the callers of the objects
    scan_msg,             \* the identity in the message the sighting thread read last
    stop_pc,              \* where the caller of PresenceSensor.stop() stands
    ret,                  \* what the last call of register_beacon returned
    call,                 \* the last call of a function of the time and what it returned
    home                  \* rule dispatch and callbacks at the Bridge (run.py)

ctlVars == <<rules, last_tick, hue_ctl, hue_bridge, asked, loop, presence_sensor, daylight_times, update_daylight_due, tick, prev_tick>>
threadVars == <<on, lock, scan_pc, scan_b, scan_was_in, sweep_pc, sweep_now, sweep_i,
                beacons_found, beacons_found_last_loop>>
histVars == <<pass_occupied, welcome_owed, bye_owed, welcome_log, bye_log>>
sensorVars == <<threadVars, histVars>>
callVars == <<stop_pc, ret, call, home>>
vars == <<clock, ctlVars, registered_beacons, sensorVars, scan_msg, callVars>>

\* ------------------------------------------------------------- calendar
\* weekday of day 0 of the time axis (datetime.weekday(): Monday is 0)
FirstWeekday == 5
\* the day of the last Sunday of March
last_sunday_mar == 1
\* days from the last Sunday of March to the last Sunday of October
SummerDays == 210
last_sunday_oct == last_sunday_mar + SummerDays

\* datetime.timedelta(hours=24)
Hours24 == DayLen

\* dt.replace(year, month, day): the date of dt becomes `day`, its time of
\* day is kept
replace_date(dt, day) == day * DayLen + (dt % DayLen)

\* date.weekday()
weekday(day) == (day + FirstWeekday) % 7

\* ----------------------------------------------------------- UKTimeZone
DST_START == last_sunday_mar * DayLen + 1
DST_END == last_sunday_oct * DayLen + 1
DST_OFFSET == -1
OFFSET == 0

dst(dt) == IF DST_START <= dt /\ dt < DST_END THEN DST_OFFSET ELSE 0

utcoffset(dt) == OFFSET + dst(dt)

\* ------------------------------------------------------------ the clock
\* datetime.datetime.utcnow()
utcnow == clock

\* datetime.datetime.today() / now(): the host keeps UK local time, which is
\* one hour ahead of UTC during British Summer Time
today == clock - dst(clock)

\* the calendar day of datetime.datetime.today()
today_day == today \div DayLen


\* datetime.datetime.strptime(text, '%H:%M'): a time of day on 1900-01-01, a
\* day before the time axis starts
Day1900 == -1
strptime(hh) == Day1900 * DayLen + hh

\* ------------------------------------------------------- PresenceSensor
\* PresenceSensor.query() without beacon_owner
query == \E i \in DOMAIN registered_beacons : registered_beacons[i].in

\* the beacons there are, each with its owner; "B9" is nobody's
BeaconIDs == {"B1", "B2"}
owner_of(id) == IF id = "B1" THEN "Richard" ELSE "Michelle"

\* beacons_found_last_loop before `beacons_found_last_loop = beacons_found`
\* has run: the local variable is unbound
Unbound == -1

\* hue.Controller.__init__ (src/hue.py lines 153-154): last_tick_daylight is
\* False; flipped and passed are the daylight edges the last tick fired
\* under the two formulations
NoHueCtl == [last_tick_daylight |-> FALSE, ticked |-> FALSE, flipped |-> {}, passed |-> {}]

\* hue.Bridge and the lock of src/controller.py before any thread uses them:
\*   lock     the global lock of src/controller.py: "free" or its holder
\*   counter  Bridge.counter
\*   lit      the lights that are on
\*   pc, job, visited, loops  per thread: where it is, what it runs, the
\*            lights its for loop has visited, the for loops it has started
\*   skewed   a for loop has ended without visiting each light once
NoHueBridge ==
    [lock |-> "free", counter |-> -1, lit |-> {},
     pc |-> [t \in {"main", "sensor"} |-> "idle"],
     job |-> [t \in {"main", "sensor"} |-> "none"],
     visited |-> [t \in {"main", "sensor"} |-> <<>>],
     loops |-> [t \in {"main", "sensor"} |-> 0],
     skewed |-> FALSE]

\* no call of query() has been made:
\*   i         the record the for loop of a call under way is at, 0 outside
\*   occupied  the local variable occupied, and the value returned
\*   during    the occupancy of the registry at the instants of the call
\*   done      a call has returned
NoQuery == [i |-> 0, occupied |-> FALSE, during |-> {}, done |-> FALSE]

\* no function of the time has been called; at is utcnow() at the call and
\* attempted the time of the last lookup attempted before it (the
\* constructor's, at first)
NoCall ==
    [fn |-> "none", arg |-> 0, result |-> 0, raised |-> "none", lookup |-> "none",
     before |-> <<>>, at |-> 0, attempted |-> 0]

\* the time of the last lookup attempted, the last call included
last_attempt(c) == IF c.lookup # "none" THEN c.at ELSE c.attempted
\* nothing is under way at the Bridge
NoHome ==
    [lock |-> "free", main |-> "idle", rule |-> 0, k |-> 0, j |-> 0,
     cb |-> "idle", cb_call |-> 0, cb_j |-> 0, dispatches |-> 0, callbacks |-> 0, log |-> <<>>]

\* PresenceSensor.__init__ (the registry is set by the specification)
SensorConstructed ==
    /\ on = FALSE
    /\ lock = "free"
    /\ scan_pc = "not_started" /\ scan_b = 0 /\ scan_was_in = FALSE
    /\ sweep_pc = "not_started" /\ sweep_now = 0 /\ sweep_i = 0
    /\ beacons_found = 0 /\ beacons_found_last_loop = Unbound
    /\ pass_occupied = FALSE
    /\ welcome_owed = [id \in BeaconIDs |-> 0]
    /\ bye_owed = 0
    /\ welcome_log = {}
    /\ bye_log = {}
    /\ scan_msg = ""
    /\ stop_pc = "idle"
    /\ ret = [called |-> FALSE, duplicate |-> FALSE, value |-> "", inserted |-> 0]

\* --------------------------------------------------------------- Bridge
\* Bridge.lights: the names of the connected lights, in the dict's order
LIGHTS == <<"Hall", "Kitchen">>
KnownLights == {LIGHTS[k] : k \in DOMAIN LIGHTS}

\* Bridge.__scenes: the saved scenes, each with the lights it holds a state of
SCENES == [evening |-> {"Hall", "Kitchen"}]

\* `for light in named_lights: self.lights[light].on(transition)`:
\* an unknown name raises KeyError at the lookup; a light in `failing` is one
\* whose request fails (its call is made and raises)
RECURSIVE switch_each(_, _, _, _, _, _)
switch_each(op, named, k, failing, transition, calls) ==
    IF k > Len(named) THEN [calls |-> calls, raised |-> "none"]
    ELSE IF named[k] \notin KnownLights THEN [calls |-> calls, raised |-> "KeyError"]
    ELSE IF named[k] \in failing
         THEN [calls |-> Append(calls, <<op, named[k], transition>>), raised |-> "IOError"]
    ELSE switch_each(op, named, k + 1, failing, transition,
                     Append(calls, <<op, named[k], transition>>))

\* a Bridge for which an empty list names no light at all
light_switch_listed(op, named_lights, failing, transition) ==
    switch_each(op, named_lights, 1, failing, transition, <<>>)

\* Bridge.light_on / Bridge.light_off: an empty list means every light, a
\* single name is wrapped into a list
light_switch(op, named_lights, failing, transition) ==
    switch_each(op, IF Len(named_lights) = 0 THEN LIGHTS ELSE named_lights,
                1, failing, transition, <<>>)

\* a Bridge whose lookup of an unsaved scene is not caught
recall_local_scene_uncaught(scene_name, failing, transition) ==
    IF scene_name \notin DOMAIN SCENES
    THEN [calls |-> <<>>, raised |-> "KeyError", updated |-> {}]
    ELSE LET r == switch_each("scene", SelectSeq(LIGHTS, LAMBDA l : l \in SCENES[scene_name]),
                              1, failing, transition, <<>>)
         IN [calls |-> r.calls, raised |-> r.raised,
             updated |-> {r.calls[k][2] : k \in 1 .. (Len(r.calls) - (IF r.raised = "none" THEN 0 ELSE 1))}]

\* Bridge.recall_local_scene: an unknown scene is logged and nothing is done
\* (`except (KeyError, OSError): ... return`); for a saved scene each light
\* it holds a state of is pushed the state (_recall_state) and then has its
\* locally stored state rewritten (update_state), a light whose request
\* fails ending the call before its update.  updated are the lights whose
\* locally stored state the call rewrote.
recall_local_scene(scene_name, failing, transition) ==
    IF scene_name \notin DOMAIN SCENES
    THEN [calls |-> <<>>, raised |-> "none", updated |-> {}]
    ELSE LET r == switch_each("scene", SelectSeq(LIGHTS, LAMBDA l : l \in SCENES[scene_name]),
                              1, failing, transition, <<>>)
         IN [calls |-> r.calls, raised |-> r.raised,
             updated |-> {r.calls[k][2] : k \in 1 .. (Len(r.calls) - (IF r.raised = "none" THEN 0 ELSE 1))}]

\* -------------------------------------------------------- _ActionHandler
\* `for light in rule['lights']: self.bridge.light_on(light, ...)`
RECURSIVE for_each_light(_, _, _, _, _, _)
for_each_light(op, lights, k, failing, transition, calls) ==
    IF k > Len(lights) THEN [calls |-> calls, raised |-> "none"]
    ELSE LET r == light_switch(op, <<lights[k]>>, failing, transition)
         IN IF r.raised # "none"
            THEN [calls |-> calls \o r.calls, raised |-> r.raised]
            ELSE for_each_light(op, lights, k + 1, failing, transition, calls \o r.calls)

\* what the body of the try block of apply_action does
action_body(rule, failing, transition) ==
    IF rule.action \in {"on", "off"}
    THEN IF Len(rule.lights) = 0
         THEN light_switch(rule.action, <<>>, failing, transition)
         ELSE for_each_light(rule.action, rule.lights, 1, failing, transition, <<>>)
    ELSE IF rule.action = "scene"
    THEN recall_local_scene(rule.scene, failing, transition)
    ELSE [calls |-> <<>>, raised |-> "none"]

\* _ActionHandler.apply_action: only TypeError is caught
apply_action(rule, failing) ==
    LET transition == IF "transition" \in DOMAIN rule THEN rule.transition ELSE 4
        r == action_body(rule, failing, transition)
    IN IF r.raised = "TypeError" THEN [r EXCEPT !.raised = "none"] ELSE r

\* ------------------------------------------------------- DaylightSensor
\* what the request to sunrise-sunset.org can do: answer with the times of
\* day of sunrise and sunset, fail with one of the caught request errors, or
\* answer with something the parsing of lines 115-121 does not accept
LookupOk == {[kind |-> "ok", sunrise |-> 1, sunset |-> 3],
             [kind |-> "ok", sunrise |-> 1, sunset |-> 2]}
NoLookup == [kind |-> "unreachable", sunrise |-> 0, sunset |-> 0]
LookupOutcomes == LookupOk \cup {NoLookup, [kind |-> "malformed", sunrise |-> 0, sunset |-> 0]}

\* DaylightSensor._get_daylight_times(date) on sensor state s = [times, due]
get_daylight_times(s, date_day, outcome) ==
    IF outcome.kind = "unreachable" THEN [times |-> s.times, due |-> s.due, raised |-> "none"]
    ELSE IF outcome.kind = "malformed" THEN [times |-> s.times, due |-> s.due, raised |-> "ValueError"]
    ELSE [times |-> [sunrise |-> replace_date(strptime(outcome.sunrise), date_day),
                     sunset |-> replace_date(strptime(outcome.sunset), date_day)],
          due |-> utcnow + Hours24,
          raised |-> "none"]

\* DaylightSensor.sunrise() / sunset(): edge is "sunrise" or "sunset"
sun_time(s, edge, outcome) ==
    LET r == IF utcnow > s.due
             THEN get_daylight_times(s, utcnow \div DayLen, outcome)
             ELSE [times |-> s.times, due |-> s.due, raised |-> "none"]
    IN [times |-> r.times, due |-> r.due, raised |-> r.raised,
        value |-> replace_date(r.times[edge], today_day)]

\* ----------------------------------------------------------- Controller
\* a check of the weekday that lets every rule through
check_weekday_any(rule) == TRUE

\* Controller._check_weekday
check_weekday(rule) ==
    IF "days" \in DOMAIN rule
    THEN rule.days[weekday(today_day) + 1] = "1"
    ELSE TRUE

\* an update that sets each time to the present instant
update_times_to_now(rs) ==
    [i \in DOMAIN rs |->
        IF rs[i].time.kind \notin {"sunrise", "sunset"}
        THEN [rs[i] EXCEPT !.time.at = utcnow]
        ELSE rs[i]]

\* Controller._update_times_to_today
update_times_to_today(rs) ==
    [i \in DOMAIN rs |->
        IF rs[i].time.kind \notin {"sunrise", "sunset"}
        THEN [rs[i] EXCEPT !.time.at = replace_date(@, today_day)]
        ELSE rs[i]]

\* lines 231-246 of loop_once: the trigger time of a rule.  `bound` is the
\* local variable trigger_time as the previous rules of this tick left it
\* ([set |-> FALSE] while it is unbound).
trigger_time_of(rule, s, bound, outcome) ==
    IF rule.trigger = "daylight"
    THEN LET r == IF rule.time.kind \in {"sunrise", "sunset"}
                  THEN sun_time(s, rule.time.kind, outcome)
                  ELSE [times |-> s.times, due |-> s.due, raised |-> "none",
                        value |-> bound.t]
             isset == rule.time.kind \in {"sunrise", "sunset"} \/ bound.set
         IN IF r.raised # "none" THEN [r EXCEPT !.value = 0]
            ELSE IF ~isset THEN [r EXCEPT !.raised = "UnboundLocalError", !.value = 0]
            ELSE IF "offset" \in DOMAIN rule THEN [r EXCEPT !.value = @ + rule.offset]
            ELSE r
    ELSE IF rule.time.kind \in {"sunrise", "sunset"}
    THEN [times |-> s.times, due |-> s.due, raised |-> "TypeError", value |-> 0]
    ELSE [times |-> s.times, due |-> s.due, raised |-> "none",
          value |-> rule.time.at + utcoffset(rule.time.at)]

\* line 249: has trigger_time passed since the last loop
trigger_passed(last, trigger_time, now) == (last < trigger_time) /\ (now > trigger_time)

\* a gate that never looks at the presence sensor
presence_gate_open(rule) == TRUE

\* lines 251-255: with a presence sensor, on/off actions only apply at home
presence_gate(rule) == query \/ (rule.action = "scene")

\* one pass of `for rule in self.rules` (lines 226-255), from rule i on.
\* acc holds what the tick has done so far:
\*   evaluated   the rules the loop reached
\*   window      per rule, whether line 249 was reached and with which time
\*   fired       the rules for which line 249 held
\*   dispatched  the rules handed to apply_action
\*   calls       the actuator calls made, in order
\*   raised      the exception that ended the loop, or "none"
\* Line 251 reads self.presence_sensor; __init__ (lines 192-195) assigns the
\* attribute only when a sensor is given, and the read of an attribute that
\* was never assigned raises AttributeError.
\*   sensor      the DaylightSensor's times and update_daylight_due
\*   bound       the local variable trigger_time
RECURSIVE run_rules(_, _, _, _, _)
run_rules(i, rs, acc, failing, lookups) ==
    IF i > Len(rs) \/ acc.raised # "none" THEN acc
    ELSE LET rule == rs[i]
             acc1 == [acc EXCEPT !.evaluated = @ \cup {i}]
         IN IF ~check_weekday(rule) THEN run_rules(i + 1, rs, acc1, failing, lookups)
            ELSE LET tt == trigger_time_of(rule, acc1.sensor, acc1.bound, lookups[i])
                     acc2 == [acc1 EXCEPT !.sensor = [times |-> tt.times, due |-> tt.due]]
                 IN IF tt.raised # "none"
                    THEN [acc2 EXCEPT !.raised = tt.raised]
                    ELSE LET acc3 == [acc2 EXCEPT
                                        !.bound = [set |-> TRUE, t |-> tt.value],
                                        !.window[i] = [checked |-> TRUE, time |-> tt.value]]
                         IN IF ~trigger_passed(last_tick, tt.value, utcnow)
                            THEN run_rules(i + 1, rs, acc3, failing, lookups)
                            ELSE LET acc4 == [acc3 EXCEPT !.fired = @ \cup {i}]
                                 IN IF presence_sensor = "unset"
                                    THEN [acc4 EXCEPT !.raised = "AttributeError"]
                                    ELSE IF ~presence_gate(rule)
                                    THEN run_rules(i + 1, rs, acc4, failing, lookups)
                                    ELSE LET r == apply_action(rule, failing)
                                         IN run_rules(i + 1, rs,
                                              [acc4 EXCEPT !.dispatched = @ \cup {i},
                                                           !.calls = @ \o r.calls,
                                                           !.raised = r.raised],
                                              failing, lookups)

\* the record of a tick before any rule is looked at
tick_start(rs) ==
    [evaluated |-> {}, fired |-> {}, dispatched |-> {}, calls |-> <<>>,
     window |-> [i \in DOMAIN rs |-> [checked |-> FALSE, time |-> 0]],
     raised |-> "none",
     sensor |-> [times |-> daylight_times, due |-> update_daylight_due],
     bound |-> [set |-> FALSE, t |-> 0]]

\* no call of loop_once under way
NoLoop ==
    [i |-> 0, now |-> 0, fired |-> {}, occupied |-> {}, dispatched |-> {},
     bound |-> [set |-> FALSE, t |-> 0]]

\* no call of loop_once yet
NoTick ==
    [now |-> -1, before |-> -1, day |-> -1, occupied |-> FALSE, evaluated |-> {}, fired |-> {},
     dispatched |-> {}, calls |-> <<>>, window |-> <<>>, raised |-> "none"]

\* Controller.loop_once.  `failing` are the lights whose request fails during
\* this call, lookups[i] is what the daylight lookup does if rule i causes one
\* (only a daylight rule makes one, and only once utcnow() is past
\* update_daylight_due).
loop_once ==
    \E failing \in SUBSET KnownLights,
       lookups \in {f \in [DOMAIN rules -> LookupOutcomes] :
                      \A i \in DOMAIN rules :
                         \/ rules[i].trigger = "daylight" /\ utcnow > update_daylight_due
                         \/ f[i] = NoLookup} :
        LET now == utcnow
            rs == update_times_to_today(rules)
            res == run_rules(1, rs, tick_start(rs), failing, lookups)
        IN /\ rules' = rs
           /\ daylight_times' = res.sensor.times
           /\ update_daylight_due' = res.sensor.due
           /\ last_tick' = IF res.raised = "none" THEN now ELSE last_tick
           /\ tick' = [now |-> now, before |-> last_tick, day |-> today_day,
                       occupied |-> query,
                       evaluated |-> res.evaluated, fired |-> res.fired,
                       dispatched |-> res.dispatched, calls |-> res.calls,
                       window |-> res.window, raised |-> res.raised]
           /\ prev_tick' = [now |-> tick.now, dispatched |-> tick.dispatched]
           /\ UNCHANGED <<clock, hue_ctl, hue_bridge, asked, loop, presence_sensor, callVars, scan_msg, registered_beacons, sensorVars>>

\* Controller.__init__, lines 208-213: the time string of a rule becomes a
\* datetime, 'sunrise' and 'sunset' stay as they are
parse_time(time) ==
    IF time.text = "HH:MM" THEN [kind |-> "at", at |-> strptime(time.hh)]
    ELSE [kind |-> time.text, at |-> 0]

\* the rule files the controller is started with; a time is the text
\* "sunrise" or "sunset", or a text "HH:MM" that names hour hh
EveryDayButSunday == <<"1", "1", "1", "1", "1", "1", "0">>
RuleFiles ==
    { <<[trigger |-> "timer", time |-> [text |-> "HH:MM", hh |-> 2], action |-> "on", lights |-> <<>>],
        [trigger |-> "timer", time |-> [text |-> "HH:MM", hh |-> 2], action |-> "scene", scene |-> "evening",
         transition |-> 50]>>,
      <<[trigger |-> "timer", time |-> [text |-> "HH:MM", hh |-> 2], days |-> EveryDayButSunday,
         action |-> "off", lights |-> <<"Hall">>],
        [trigger |-> "timer", time |-> [text |-> "HH:MM", hh |-> 1], action |-> "on", lights |-> <<"Kitchen">>]>>,
      <<[trigger |-> "timer", time |-> [text |-> "HH:MM", hh |-> 2], action |-> "on", lights |-> <<>>],
        [trigger |-> "timer", time |-> [text |-> "HH:MM", hh |-> 2], action |-> "on",
         lights |-> <<"Hall", "Attic">>]>>,
      <<[trigger |-> "daylight", time |-> [text |-> "sunset", hh |-> 0], offset |-> -1,
         action |-> "off", lights |-> <<>>],
        [trigger |-> "timer", time |-> [text |-> "HH:MM", hh |-> 2], action |-> "scene",
         scene |-> "morning"]>> }

\* Controller.__init__ and DaylightSensor.__init__ (the first lookup succeeds:
\* without it the sensor cannot be constructed); given is "sensor" when a
\* presence sensor is passed and "unset" when the argument is left at None,
\* and files are the rule files it may be started with
Controller(files, given) ==
    /\ clock = 0
    /\ presence_sensor = given
    /\ loop = NoLoop /\ asked = NoQuery
    /\ hue_ctl = NoHueCtl /\ hue_bridge = NoHueBridge
    /\ \E file \in files :
          rules = [i \in DOMAIN file |-> [file[i] EXCEPT !.time = parse_time(@)]]
    /\ last_tick = utcnow
    /\ \E o \in LookupOk :
          LET r == get_daylight_times([times |-> <<>>, due |-> 0], today_day, o)
          IN daylight_times = r.times /\ update_daylight_due = r.due
    /\ tick = NoTick
    /\ prev_tick = [now |-> -1, dispatched |-> {}]
    /\ registered_beacons = <<[owner |-> "Richard", ID |-> "B1", last_seen |-> 0, in |-> FALSE]>>
    /\ SensorConstructed
    /\ call = NoCall /\ home = NoHome

\* lights.Controller(bridge, config.RULES, daylight_sensor, presence_sensor)
InitCtl == Controller(RuleFiles, "sensor")

\* time passes
advance ==
    /\ clock < MaxTime
    /\ clock' = clock + 1
    /\ UNCHANGED <<ctlVars, callVars, scan_msg, registered_beacons, sensorVars>>

\* the presence sensor's threads run beside the controller: between two reads
\* of query() a beacon may have come or gone
beacon_changes ==
    /\ \E i \in DOMAIN registered_beacons :
          registered_beacons' = [registered_beacons EXCEPT ![i].in = ~@]
    /\ UNCHANGED <<clock, ctlVars, callVars, scan_msg, sensorVars>>

NextCtl == loop_once \/ advance \/ beacon_changes

SpecCtl == InitCtl /\ [][NextCtl]_vars

\* lights.Controller(bridge, config.RULES, daylight_sensor)
InitNoSensor == Controller(RuleFiles, "unset")

SpecNoSensor == InitNoSensor /\ [][NextCtl]_vars

\* rule files with a rule that has trigger 'daylight' and a clock time: after
\* a Timer rule, and as the first rule of the file
ClockTimeDaylightFiles ==
    { <<[trigger |-> "timer", time |-> [text |-> "HH:MM", hh |-> 2], action |-> "scene",
         scene |-> "evening"],
        [trigger |-> "daylight", time |-> [text |-> "HH:MM", hh |-> 3], action |-> "off",
         lights |-> <<>>]>>,
      <<[trigger |-> "daylight", time |-> [text |-> "HH:MM", hh |-> 1], action |-> "on",
         lights |-> <<"Hall">>],
        [trigger |-> "timer", time |-> [text |-> "HH:MM", hh |-> 2], action |-> "on",
         lights |-> <<>>]>> }

InitClockTimeDaylight == Controller(ClockTimeDaylightFiles, "sensor")

SpecClockTimeDaylight == InitClockTimeDaylight /\ [][NextCtl]_vars

\* ---- loop_once rule by rule, beside the presence sensor's threads
\* lines 221-224: now = utcnow() and the rule times are set to today
loop_enter ==
    /\ loop.i = 0
    /\ rules' = update_times_to_today(rules)
    /\ loop' = [NoLoop EXCEPT !.i = 1, !.now = utcnow]
    /\ UNCHANGED <<clock, hue_ctl, hue_bridge, last_tick, asked, presence_sensor, daylight_times, update_daylight_due, tick,
                   prev_tick, callVars, scan_msg, registered_beacons, sensorVars>>

\* lines 226-255 for the rule the for loop is at.  The rule that passes line
\* 249 calls self.presence_sensor.query() (line 252), which reads the
\* registry as it is at that moment; loop.occupied are the rules whose call
\* returned True.  An exception ends the call of loop_once.
loop_rule ==
    /\ loop.i \in DOMAIN rules
    /\ presence_sensor = "sensor"
    /\ \E failing \in SUBSET KnownLights,
          outcome \in {o \in LookupOutcomes :
                         \/ rules[loop.i].trigger = "daylight" /\ utcnow > update_daylight_due
                         \/ o = NoLookup} :
          LET rule == rules[loop.i]
              tt == trigger_time_of(rule, [times |-> daylight_times, due |-> update_daylight_due],
                                    loop.bound, outcome)
              passed == tt.raised = "none" /\ trigger_passed(last_tick, tt.value, loop.now)
              r == apply_action(rule, failing)
              next == [loop EXCEPT !.i = @ + 1]
          IN IF ~check_weekday(rule)
             THEN /\ loop' = next
                  /\ UNCHANGED <<daylight_times, update_daylight_due>>
             ELSE /\ daylight_times' = tt.times
                  /\ update_daylight_due' = tt.due
                  /\ loop' =
                        IF tt.raised # "none" THEN NoLoop
                        ELSE IF ~passed THEN [next EXCEPT !.bound = [set |-> TRUE, t |-> tt.value]]
                        ELSE IF ~presence_gate(rule)
                        THEN [next EXCEPT !.bound = [set |-> TRUE, t |-> tt.value],
                                          !.fired = @ \cup {loop.i}]
                        ELSE IF r.raised # "none" THEN NoLoop
                        ELSE [next EXCEPT !.bound = [set |-> TRUE, t |-> tt.value],
                                          !.fired = @ \cup {loop.i},
                                          !.occupied = @ \cup (IF query THEN {loop.i} ELSE {}),
                                          !.dispatched = @ \cup {loop.i}]
    /\ UNCHANGED <<clock, hue_ctl, hue_bridge, rules, last_tick, asked, presence_sensor, tick, prev_tick, callVars, scan_msg,
                   registered_beacons, sensorVars>>

\* line 257: self.last_tick = now
loop_exit ==
    /\ loop.i = Len(rules) + 1
    /\ last_tick' = loop.now
    /\ loop' = NoLoop
    /\ UNCHANGED <<clock, hue_ctl, hue_bridge, rules, asked, presence_sensor, daylight_times, update_daylight_due, tick,
                   prev_tick, callVars, scan_msg, registered_beacons, sensorVars>>

NextLoop == loop_enter \/ loop_rule \/ loop_exit \/ advance \/ beacon_changes

SpecLoop == InitCtl /\ [][NextLoop]_vars

\* ------------------------------------------------ claims on loop_once
\* a call of loop_once has been made
Ticked == tick.now # -1

\* the trigger time of Timer rule i in the last call, from the rule as the
\* call left it
timer_trigger(i) == rules[i].time.at + utcoffset(rules[i].time.at)

\* the 'days' mask of rule i has '0' at the weekday of the last call
masked_out(i) == "days" \in DOMAIN rules[i] /\ rules[i].days[weekday(tick.day) + 1] = "0"

\* C1: a rule that applies today fires in a tick if and only if
\* last_tick < trigger_instant <= now; a tick whose now equals the trigger
\* instant fires it.
C1_FiresIffInWindow ==
    \A i \in DOMAIN tick.window :
        tick.window[i].checked =>
            ((i \in tick.fired) <=>
                (tick.before < tick.window[i].time /\ tick.window[i].time <= tick.now))

\* C6: with a presence sensor, a firing on/off rule is dispatched exactly when
\* query() is true, and a firing scene rule is dispatched whatever query() is.
C6_PresenceGate ==
    \A i \in tick.fired :
        /\ rules[i].action \in {"on", "off"} => ((i \in tick.dispatched) <=> tick.occupied)
        /\ rules[i].action = "scene" => i \in tick.dispatched

\* a tick in an empty house in which an on rule and a scene rule fire: the on
\* rule is suppressed, the scene rule dispatched
C6_Witness ==
    /\ ~tick.occupied
    /\ \E i, j \in tick.fired :
          /\ rules[i].action = "on" /\ i \notin tick.dispatched
          /\ rules[j].action = "scene" /\ j \in tick.dispatched

\* C7: a rule whose 'days' mask has '0' at today's weekday index is never
\* dispatched in that tick, whatever its trigger instant; a rule without a
\* mask applies on every day (its trigger time is looked at).
C7_WeekdayMask ==
    Ticked =>
        \A i \in DOMAIN rules :
            /\ masked_out(i) => i \notin tick.fired \cup tick.dispatched
            /\ ("days" \notin DOMAIN rules[i] /\ i \in tick.evaluated /\ tick.raised = "none")
                   => tick.window[i].checked

\* a tick in an occupied house, on a day the mask excludes, with the rule's
\* trigger time inside the window: the rule is not dispatched
C7_Witness ==
    /\ Ticked /\ tick.occupied /\ tick.raised = "none"
    /\ \E i \in DOMAIN rules :
          /\ masked_out(i)
          /\ rules[i].trigger = "timer"
          /\ trigger_passed(tick.before, timer_trigger(i), tick.now)
          /\ i \in tick.evaluated /\ i \notin tick.dispatched

\* C8: two calls of loop_once with the same now dispatch each rule at most
\* once in total: the second call dispatches nothing the first dispatched.
C8_SameNowIdempotent ==
    (Ticked /\ prev_tick.now = tick.now) => tick.dispatched \cap prev_tick.dispatched = {}

\* C9: after every call of loop_once, including one in which a dispatch
\* failed, last_tick equals the now of that call.
C9_LastTickIsNow ==
    (Ticked /\ tick.raised \in {"none", "KeyError", "IOError"}) => last_tick = tick.now

\* C10: if the dispatch of one firing rule fails during a tick, every other
\* rule that fires in the same tick is still evaluated and dispatched.
C10_OthersStillDispatched ==
    (Ticked /\ tick.raised \in {"KeyError", "IOError"}) =>
        \A i \in DOMAIN rules :
            ( /\ rules[i].trigger = "timer"
              /\ ~masked_out(i)
              /\ trigger_passed(tick.before, timer_trigger(i), tick.now)
              /\ (tick.occupied \/ rules[i].action = "scene") )
            => i \in tick.dispatched

\* the lights an on/off rule names: an empty list stands for every light
targets(i) == IF Len(rules[i].lights) = 0 THEN LIGHTS ELSE rules[i].lights

\* C11: when apply_action switches several lights and the request fails for
\* one of them, the request is still made for every other light the rule
\* names, and apply_action does not raise.
C11_EveryTargetSwitched ==
    \A i \in tick.dispatched :
        (rules[i].action \in {"on", "off"} /\ Len(targets(i)) > 1) =>
            /\ tick.raised # "IOError"
            /\ \A k \in DOMAIN targets(i) :
                  targets(i)[k] \in KnownLights =>
                      \E c \in DOMAIN tick.calls :
                          tick.calls[c][1] = rules[i].action /\ tick.calls[c][2] = targets(i)[k]

\* the calendar day of today() when the clock shows t
day_of(t) == (t - dst(t)) \div DayLen

\* C20: over any sequence of ticks, with or without a refresh of the cached
\* times, a Daylight rule is dispatched at the first tick whose now is past
\* sunrise/sunset plus offset (the tick before was not past it), and two
\* ticks in a row on one calendar day do not both dispatch it.
C20_DaylightOncePerDay ==
    (Ticked /\ tick.raised = "none") =>
        \A i \in DOMAIN rules :
            (rules[i].trigger = "daylight" /\ tick.window[i].checked) =>
                /\ ( /\ tick.before <= tick.window[i].time
                     /\ tick.window[i].time < tick.now
                     /\ (tick.occupied \/ rules[i].action = "scene") )
                   => i \in tick.dispatched
                /\ ( /\ i \in tick.dispatched \cap prev_tick.dispatched
                     /\ prev_tick.now = tick.before )
                   => day_of(prev_tick.now) # tick.day

\* the lights that the rules from i on, dispatched in the last tick with
\* action op, name, in the order of the rules
RECURSIVE lights_due(_, _)
lights_due(i, op) ==
    IF i > Len(rules) THEN <<>>
    ELSE (IF i \in tick.dispatched /\ rules[i].action = op THEN targets(i) ELSE <<>>)
             \o lights_due(i + 1, op)

\* the lights on which the last tick invoked op, in the order of the calls
lights_called(op) ==
    LET cs == SelectSeq(tick.calls, LAMBDA c : c[1] = op)
    IN [k \in DOMAIN cs |-> cs[k][2]]

C22_NoSensorNoGate ==
    (Ticked /\ presence_sensor = "unset") =>
        /\ tick.raised # "AttributeError"
        /\ tick.fired \subseteq tick.dispatched

\* C23: one tick dispatches each rule at most once, however long the gap
\* since the previous tick (its on and off calls are no more than the lights
\* its dispatched rules name), and a Timer rule is dispatched at most once
\* per calendar day: two ticks in a row on one day do not both dispatch it.
C23_TimerOncePerDay ==
    Ticked =>
        /\ \A op \in {"on", "off"} : Len(lights_called(op)) <= Len(lights_due(1, op))
        /\ \A i \in tick.dispatched \cap prev_tick.dispatched :
              rules[i].trigger = "timer" => day_of(prev_tick.now) # tick.day

\* C25: within one call of loop_once all presence-gated rules observe the
\* same occupancy: of the on and off rules that passed line 249 in the call
\* under way, either all read True from query() or all read False.
C25_OneOccupancyPerTick ==
    \A i, j \in loop.fired :
        (rules[i].action # "scene" /\ rules[j].action # "scene") =>
            ((i \in loop.occupied) <=> (j \in loop.occupied))

occurrence(i, d) ==
    LET at == replace_date(rules[i].time.at, d)
    IN at + utcoffset(at)

\* rule i applies on the weekday of calendar day d
enabled_on(i, d) == "days" \in DOMAIN rules[i] => rules[i].days[weekday(d) + 1] = "1"

\* C36: no firing is lost between ticks: of two ticks in a row at t1 < t2,
\* less than 24 hours apart, the second dispatches every Timer rule enabled
\* for the day whose occurrence lies in (t1, t2], subject to the presence
\* gate, also when t1 and t2 fall on different calendar days.
C36_NoFiringLost ==
    ( /\ Ticked /\ tick.raised = "none"
      /\ prev_tick.now = tick.before
      /\ tick.now - tick.before < Hours24 ) =>
        \A i \in DOMAIN rules : \A d \in day_of(tick.before) .. tick.day :
            ( /\ rules[i].trigger = "timer" /\ enabled_on(i, d)
              /\ tick.before < occurrence(i, d) /\ occurrence(i, d) <= tick.now
              /\ (tick.occupied \/ rules[i].action = "scene") )
            => i \in tick.dispatched

\* C37: the fire decision of a rule uses a trigger instant computed from that
\* rule alone: a rule with trigger 'daylight' whose time is neither 'sunrise'
\* nor 'sunset' never fires, never reuses the trigger instant of a rule
\* evaluated earlier in the tick, and loop_once does not raise for it.
C37_ClockTimeDaylightInert ==
    Ticked =>
        /\ tick.raised # "UnboundLocalError"
        /\ \A i \in DOMAIN rules :
              (rules[i].trigger = "daylight" /\ rules[i].time.kind = "at") =>
                  (i \notin tick.fired /\ ~tick.window[i].checked)

\* C39: recall_local_scene with a scene name that is not saved returns
\* without raising, issues no actuator call and leaves every light's locally
\* stored state unchanged; a rule dispatching such a scene does not abort
\* the tick: if the tick raised, a later rule had been reached first, and
\* every scene call of the tick belongs to a saved scene of a dispatched rule.
C39_UnsavedSceneIsInert ==
    LET unsaved == {i \in tick.dispatched :
                      rules[i].action = "scene" /\ rules[i].scene \notin DOMAIN SCENES}
    IN /\ \A i \in unsaved :
             /\ tick.raised # "none" => \E j \in tick.evaluated : j > i
             /\ \A failing \in SUBSET KnownLights :
                   LET r == recall_local_scene(rules[i].scene, failing, 4)
                   IN r.raised = "none" /\ r.calls = <<>> /\ r.updated = {}
       /\ unsaved # {} =>
             \A k \in DOMAIN tick.calls :
                tick.calls[k][1] = "scene" =>
                   \E j \in tick.dispatched :
                      /\ rules[j].action = "scene" /\ rules[j].scene \in DOMAIN SCENES
                      /\ tick.calls[k][2] \in SCENES[rules[j].scene]

\* a tick dispatched a rule whose scene is not saved, and ended normally
C39_Witness ==
    /\ \E i \in tick.dispatched :
          rules[i].action = "scene" /\ rules[i].scene \notin DOMAIN SCENES
    /\ tick.raised = "none" /\ last_tick = tick.now

\* ============================================================ PresenceSensor
\* datetime.datetime.now() as the sensor reads it (it only compares
\* differences of it)
datetime_now == clock

\* a lookup that answers an unknown identity with the first record
get_beacon_first(id) ==
    IF \E i \in DOMAIN registered_beacons : registered_beacons[i].ID = id
    THEN CHOOSE i \in DOMAIN registered_beacons :
            /\ registered_beacons[i].ID = id
            /\ \A j \in DOMAIN registered_beacons : registered_beacons[j].ID = id => i <= j
    ELSE IF Len(registered_beacons) > 0 THEN 1 ELSE 0

\* PresenceSensor._get_beacon: the position of the record, 0 for None
get_beacon(id) ==
    IF \E i \in DOMAIN registered_beacons : registered_beacons[i].ID = id
    THEN CHOOSE i \in DOMAIN registered_beacons :
            /\ registered_beacons[i].ID = id
            /\ \A j \in DOMAIN registered_beacons : registered_beacons[j].ID = id => i <= j
    ELSE 0

\* counters of owed callbacks are kept within -2 .. 2
clamp(n) == IF n > 2 THEN 2 ELSE IF n < -2 THEN -2 ELSE n

\* PresenceSensor.register_beacon, for a beacon with all its ID keys
register_beacon(id) ==
    /\ registered_beacons' =
          IF get_beacon(id) = 0
          THEN Append(registered_beacons,
                      [owner |-> owner_of(id), ID |-> id, last_seen |-> datetime_now, in |-> FALSE])
          ELSE registered_beacons
    /\ ret' = [called |-> TRUE,
               duplicate |-> get_beacon(id) # 0,
               value |-> IF get_beacon(id) = 0 THEN "Registered beacon" ELSE "None",
               inserted |-> Len(registered_beacons') - Len(registered_beacons)]
    /\ UNCHANGED <<clock, ctlVars, stop_pc, call, home, scan_msg, sensorVars>>

\* PresenceSensor.start
start ==
    /\ scan_pc = "not_started" /\ sweep_pc = "not_started"
    /\ on' = TRUE
    /\ scan_pc' = "while"
    /\ sweep_pc' = "top"
    /\ UNCHANGED <<clock, ctlVars, callVars, scan_msg, registered_beacons, lock, scan_b, scan_was_in, sweep_now,
                   sweep_i, beacons_found, beacons_found_last_loop, histVars>>

\* time passes
sensor_time_passes ==
    /\ clock < MaxSensorTime
    /\ clock' = clock + 1
    /\ UNCHANGED <<ctlVars, callVars, scan_msg, registered_beacons, sensorVars>>

\* ---- the sighting thread of src/jubilee/ibeacon.py
\* _scanner, line 116: while self.on; the thread then waits in readline()
\* until the scanner's pipe has a line
scan_while ==
    /\ scan_pc = "while"
    /\ scan_pc' = IF on THEN "readline" ELSE "done"
    /\ scan_msg' = ""
    /\ UNCHANGED <<clock, ctlVars, callVars, registered_beacons, on, lock, scan_b,
                   scan_was_in, sweep_pc, sweep_now, sweep_i, beacons_found,
                   beacons_found_last_loop, histVars>>

\* _scanner, lines 116-118, and _handle_message, lines 141-147: a message about
\* beacon id is read and its record looked up
scan_readline(id) ==
    /\ scan_pc = "readline"
    /\ scan_msg' = id
    /\ scan_b' = get_beacon(id)
    /\ scan_pc' = IF get_beacon(id) = 0 THEN "while" ELSE "last_seen"
    /\ UNCHANGED <<clock, ctlVars, callVars, registered_beacons, on, lock, scan_was_in, sweep_pc,
                   sweep_now, sweep_i, beacons_found, beacons_found_last_loop, histVars>>

\* a sighting that also marks the beacon as away
seen_and_away(b, t) == [b EXCEPT !.last_seen = t, !.in = FALSE]

\* line 149: beacon['last_seen'] = now()
seen(b, t) == [b EXCEPT !.last_seen = t]

\* lines 148-149: with self.lock: beacon['last_seen'] = now()
scan_last_seen ==
    /\ scan_pc = "last_seen" /\ lock = "free"
    /\ registered_beacons' = [registered_beacons EXCEPT ![scan_b] = seen(@, datetime_now)]
    /\ scan_pc' = "check_in"
    /\ UNCHANGED <<clock, ctlVars, callVars, scan_msg, on, lock, scan_b, scan_was_in, sweep_pc, sweep_now,
                   sweep_i, beacons_found, beacons_found_last_loop, histVars>>

\* where _handle_message goes after reading beacon['in'], with a welcome for
\* every sighting
after_check_always(was_in) == IF was_in = FALSE THEN "set_in" ELSE "welcome"

\* line 151: if beacon['in'] == False
after_check(was_in) == IF was_in = FALSE THEN "set_in" ELSE "while"

scan_check_in ==
    /\ scan_pc = "check_in"
    /\ scan_was_in' = registered_beacons[scan_b].in
    /\ scan_pc' = after_check(registered_beacons[scan_b].in)
    /\ UNCHANGED <<clock, ctlVars, callVars, scan_msg, registered_beacons, on, lock, scan_b, sweep_pc, sweep_now,
                   sweep_i, beacons_found, beacons_found_last_loop, histVars>>

\* line 152: beacon['in'] = True
scan_set_in ==
    /\ scan_pc = "set_in"
    /\ registered_beacons' = [registered_beacons EXCEPT ![scan_b].in = TRUE]
    /\ welcome_owed' = IF registered_beacons[scan_b].in THEN welcome_owed
                       ELSE [welcome_owed EXCEPT ![registered_beacons[scan_b].ID] = clamp(@ + 1)]
    /\ scan_pc' = "welcome"
    /\ UNCHANGED <<clock, ctlVars, callVars, scan_msg, on, lock, scan_b, scan_was_in, sweep_pc, sweep_now, sweep_i,
                   beacons_found, beacons_found_last_loop, pass_occupied, bye_owed,
                   welcome_log, bye_log>>

\* line 153: self.welcome_callback(beacon['owner'])
scan_welcome ==
    /\ scan_pc = "welcome"
    /\ welcome_owed' = [welcome_owed EXCEPT ![registered_beacons[scan_b].ID] = clamp(@ - 1)]
    /\ welcome_log' = welcome_log \cup {[was_in |-> scan_was_in, stopping |-> stop_pc # "idle"]}
    /\ scan_pc' = "while"
    /\ UNCHANGED <<clock, ctlVars, callVars, scan_msg, registered_beacons, on, lock, scan_b, scan_was_in, sweep_pc,
                   sweep_now, sweep_i, beacons_found, beacons_found_last_loop, pass_occupied,
                   bye_owed, bye_log>>

\* ---- the sweep thread: PresenceSensor._loop (the same code in
\* src/jubilee/ibeacon.py, lines 120-137, and src/jubilee/presence.py, 90-107)
\* lines 122-126: while self.on: now = ...; beacons_found = 0
sweep_top ==
    /\ sweep_pc = "top"
    /\ IF on
       THEN /\ sweep_now' = datetime_now
            /\ beacons_found' = 0
            /\ pass_occupied' = query
            /\ sweep_pc' = "acquire"
       ELSE /\ sweep_pc' = "done"
            /\ UNCHANGED <<sweep_now, beacons_found, pass_occupied>>
    /\ UNCHANGED <<clock, ctlVars, callVars, scan_msg, registered_beacons, on, lock, scan_pc, scan_b, scan_was_in,
                   sweep_i, beacons_found_last_loop, welcome_owed, bye_owed, welcome_log,
                   bye_log>>

\* line 127: with self.lock
sweep_acquire ==
    /\ sweep_pc = "acquire" /\ lock = "free"
    /\ lock' = "sweep"
    /\ sweep_i' = 1
    /\ sweep_pc' = "pass"
    /\ UNCHANGED <<clock, ctlVars, callVars, scan_msg, registered_beacons, on, scan_pc, scan_b, scan_was_in,
                   sweep_now, beacons_found, beacons_found_last_loop, histVars>>

\* line 129: has the beacon not been seen for longer than the timeout
timed_out(b) == sweep_now - b.last_seen > scan_timeout

\* lines 128-133: one turn of `for b in self.registered_beacons`
sweep_beacon ==
    /\ sweep_pc = "pass" /\ sweep_i <= Len(registered_beacons)
    /\ LET b == registered_beacons[sweep_i]
           swept == [registered_beacons EXCEPT ![sweep_i].in = FALSE]
       IN IF timed_out(b)
          THEN /\ registered_beacons' = swept
               /\ bye_owed' = IF query /\ ~(\E i \in DOMAIN swept : swept[i].in)
                              THEN clamp(bye_owed + 1) ELSE bye_owed
               /\ UNCHANGED beacons_found
          ELSE /\ beacons_found' = beacons_found + 1
               /\ UNCHANGED <<registered_beacons, bye_owed>>
    /\ sweep_i' = sweep_i + 1
    /\ UNCHANGED <<clock, ctlVars, callVars, scan_msg, on, lock, scan_pc, scan_b, scan_was_in, sweep_pc, sweep_now,
                   beacons_found_last_loop, pass_occupied, welcome_owed, welcome_log, bye_log>>

\* the end of the with block: the lock is released
sweep_release ==
    /\ sweep_pc = "pass" /\ sweep_i > Len(registered_beacons)
    /\ lock' = "free"
    /\ sweep_pc' = "edge"
    /\ UNCHANGED <<clock, ctlVars, callVars, scan_msg, registered_beacons, on, scan_pc, scan_b, scan_was_in,
                   sweep_now, sweep_i, beacons_found, beacons_found_last_loop, histVars>>

\* a sweep that takes the lock again for its callback
sweep_edge_locked ==
    /\ sweep_pc = "edge" /\ lock = "free"
    /\ IF beacons_found # 0
       THEN /\ beacons_found_last_loop' = beacons_found
            /\ sweep_pc' = "top"
            /\ UNCHANGED lock
       ELSE IF beacons_found_last_loop = Unbound
       THEN /\ sweep_pc' = "crashed"
            /\ UNCHANGED <<beacons_found_last_loop, lock>>
       ELSE IF beacons_found_last_loop > 0
       THEN /\ sweep_pc' = "callback"
            /\ lock' = "sweep"
            /\ UNCHANGED beacons_found_last_loop
       ELSE /\ beacons_found_last_loop' = beacons_found
            /\ sweep_pc' = "top"
            /\ UNCHANGED lock
    /\ UNCHANGED <<clock, ctlVars, callVars, scan_msg, registered_beacons, on, scan_pc, scan_b, scan_was_in,
                   sweep_now, sweep_i, beacons_found, histVars>>

\* line 134: (beacons_found == 0) and (beacons_found_last_loop > 0); reading
\* the unbound beacons_found_last_loop raises UnboundLocalError, which ends
\* the thread.  Without a callback, lines 136-137 follow at once.
sweep_edge ==
    /\ sweep_pc = "edge"
    /\ IF beacons_found # 0
       THEN /\ beacons_found_last_loop' = beacons_found
            /\ sweep_pc' = "top"
       ELSE IF beacons_found_last_loop = Unbound
       THEN /\ sweep_pc' = "crashed"
            /\ UNCHANGED beacons_found_last_loop
       ELSE IF beacons_found_last_loop > 0
       THEN /\ sweep_pc' = "callback"
            /\ UNCHANGED beacons_found_last_loop
       ELSE /\ beacons_found_last_loop' = beacons_found
            /\ sweep_pc' = "top"
    /\ UNCHANGED <<clock, ctlVars, callVars, scan_msg, registered_beacons, on, lock, scan_pc, scan_b, scan_was_in,
                   sweep_now, sweep_i, beacons_found, histVars>>

\* lines 135-137: self.last_one_out_callback(), then
\* beacons_found_last_loop = beacons_found and the sleep
sweep_callback ==
    /\ sweep_pc = "callback"
    /\ bye_owed' = clamp(bye_owed - 1)
    /\ bye_log' = bye_log \cup {[occupied_before |-> pass_occupied,
                                 welcomed |-> welcome_log # {},
                                 stopping |-> stop_pc # "idle"]}
    /\ beacons_found_last_loop' = beacons_found
    /\ sweep_pc' = "top"
    /\ UNCHANGED <<clock, ctlVars, callVars, scan_msg, registered_beacons, on, lock, scan_pc, scan_b, scan_was_in,
                   sweep_now, sweep_i, beacons_found, pass_occupied, welcome_owed, welcome_log>>

\* ---- PresenceSensor.stop of src/jubilee/ibeacon.py, lines 77-82
\* line 79: self.on = False
stop ==
    /\ stop_pc = "idle" /\ scan_pc # "not_started"
    /\ on' = FALSE
    /\ stop_pc' = "join_scan_thread"
    /\ UNCHANGED <<clock, ctlVars, ret, call, home, scan_msg, registered_beacons, lock, scan_pc,
                   scan_b, scan_was_in, sweep_pc, sweep_now, sweep_i, beacons_found,
                   beacons_found_last_loop, histVars>>

\* line 80: self.scan_thread.join() returns once _scanner has ended
join_scan_thread ==
    /\ stop_pc = "join_scan_thread" /\ scan_pc = "done"
    /\ stop_pc' = "join_thread"
    /\ UNCHANGED <<clock, ctlVars, ret, call, home, scan_msg, registered_beacons, sensorVars>>

\* line 81: self.thread.join() returns once _loop has ended, by leaving its
\* while loop or by an exception
join_thread ==
    /\ stop_pc = "join_thread" /\ sweep_pc \in {"done", "crashed"}
    /\ stop_pc' = "returned"
    /\ UNCHANGED <<clock, ctlVars, ret, call, home, scan_msg, registered_beacons, sensorVars>>

\* ---- the sensor of src/jubilee/ibeacon.py with its two threads
InitSensor ==
    /\ clock = 0
    /\ rules = <<>> /\ last_tick = 0 /\ presence_sensor = "sensor" /\ loop = NoLoop /\ asked = NoQuery
    /\ hue_ctl = NoHueCtl /\ hue_bridge = NoHueBridge
    /\ daylight_times = [sunrise |-> 0, sunset |-> 0] /\ update_daylight_due = 0
    /\ tick = NoTick /\ prev_tick = [now |-> -1, dispatched |-> {}]
    /\ registered_beacons = <<>>
    /\ SensorConstructed
    /\ call = NoCall /\ home = NoHome

NextSensor ==
    \/ \E id \in BeaconIDs : register_beacon(id)
    \/ start
    \/ sensor_time_passes
    \/ scan_while
    \/ \E id \in BeaconIDs \cup {"B9"} : scan_readline(id)
    \/ scan_last_seen
    \/ scan_check_in
    \/ scan_set_in
    \/ scan_welcome
    \/ sweep_top
    \/ sweep_acquire
    \/ sweep_beacon
    \/ sweep_release
    \/ sweep_edge
    \/ sweep_callback
    \/ stop
    \/ join_scan_thread
    \/ join_thread

SpecSensor == InitSensor /\ [][NextSensor]_vars

\* the same sensor under a fair scheduler: every thread that can take a step
\* eventually takes one; the arrival of a line in readline() is no step of a
\* thread
SpecSensorFair ==
    /\ InitSensor /\ [][NextSensor]_vars
    /\ WF_vars(scan_while \/ scan_last_seen \/ scan_check_in \/ scan_set_in \/ scan_welcome)
    /\ WF_vars(sweep_top \/ sweep_acquire \/ sweep_beacon \/ sweep_release \/ sweep_edge
                  \/ sweep_callback)
    /\ WF_vars(join_scan_thread \/ join_thread)

\* ---- the sensor of src/jubilee/presence.py: the sweep above, and the
\* handler that the ibeacon client calls for every message
\* _client, lines 85-88: the client thread connects to the ibeacon server and
\* from then on hands every message to _handle_message
client ==
    /\ scan_pc = "while"
    /\ scan_pc' = "readline"
    /\ UNCHANGED <<clock, ctlVars, callVars, scan_msg, registered_beacons, on, lock, scan_b,
                   scan_was_in, sweep_pc, sweep_now, sweep_i, beacons_found,
                   beacons_found_last_loop, histVars>>

\* lines 110-114: beacon = self._get_beacon(message); if (beacon != None)
client_message(id) ==
    /\ scan_pc = "readline"
    /\ scan_msg' = id
    /\ scan_b' = get_beacon(id)
    /\ scan_pc' = IF get_beacon(id) = 0 THEN "readline" ELSE "update"
    /\ UNCHANGED <<clock, ctlVars, callVars, registered_beacons, on, lock, scan_was_in, sweep_pc,
                   sweep_now, sweep_i, beacons_found, beacons_found_last_loop, histVars>>

\* lines 115-119: with self.lock: last_seen = now(); if not in: in = True
presence_update ==
    /\ scan_pc = "update" /\ lock = "free"
    /\ scan_was_in' = registered_beacons[scan_b].in
    /\ registered_beacons' = [registered_beacons EXCEPT ![scan_b].last_seen = datetime_now,
                                                        ![scan_b].in = TRUE]
    /\ welcome_owed' = IF registered_beacons[scan_b].in THEN welcome_owed
                       ELSE [welcome_owed EXCEPT ![registered_beacons[scan_b].ID] = clamp(@ + 1)]
    /\ scan_pc' = "welcome"
    /\ UNCHANGED <<clock, ctlVars, callVars, scan_msg, on, lock, scan_b, sweep_pc, sweep_now, sweep_i,
                   beacons_found, beacons_found_last_loop, pass_occupied, bye_owed,
                   welcome_log, bye_log>>

\* line 120: self.welcome_callback(beacon['owner']), outside the if
presence_welcome ==
    /\ scan_pc = "welcome"
    /\ welcome_owed' = [welcome_owed EXCEPT ![registered_beacons[scan_b].ID] = clamp(@ - 1)]
    /\ welcome_log' = welcome_log \cup {[was_in |-> scan_was_in, stopping |-> stop_pc # "idle"]}
    /\ scan_pc' = "readline"
    /\ UNCHANGED <<clock, ctlVars, callVars, scan_msg, registered_beacons, on, lock, scan_b, scan_was_in, sweep_pc,
                   sweep_now, sweep_i, beacons_found, beacons_found_last_loop, pass_occupied,
                   bye_owed, bye_log>>

NextPresence ==
    \/ \E id \in BeaconIDs : register_beacon(id)
    \/ start
    \/ sensor_time_passes
    \/ client
    \/ \E id \in BeaconIDs \cup {"B9"} : client_message(id)
    \/ presence_update
    \/ presence_welcome
    \/ sweep_top
    \/ sweep_acquire
    \/ sweep_beacon
    \/ sweep_release
    \/ sweep_edge
    \/ sweep_callback

SpecPresence == InitSensor /\ [][NextPresence]_vars

\* ---- PresenceSensor.query() record by record (lines 84-89), called from the
\* controller's thread while the sensor's threads write the records
\* line 86: occupied = False
query_enter ==
    /\ asked.i = 0
    /\ asked' = [i |-> 1, occupied |-> FALSE, during |-> {query}, done |-> FALSE]
    /\ UNCHANGED <<clock, hue_ctl, hue_bridge, rules, last_tick, loop, presence_sensor, daylight_times,
                   update_daylight_due, tick, prev_tick, registered_beacons, sensorVars,
                   scan_msg, callVars>>

\* lines 87-88: if b['in']: occupied = True, for the record the loop is at
query_read ==
    /\ asked.i \in DOMAIN registered_beacons
    /\ asked' = [asked EXCEPT !.i = @ + 1,
                              !.occupied = @ \/ registered_beacons[asked.i].in]
    /\ UNCHANGED <<clock, hue_ctl, hue_bridge, rules, last_tick, loop, presence_sensor, daylight_times,
                   update_daylight_due, tick, prev_tick, registered_beacons, sensorVars,
                   scan_msg, callVars>>

\* line 89: return occupied
query_return ==
    /\ asked.i = Len(registered_beacons) + 1
    /\ asked' = [asked EXCEPT !.i = 0, !.done = TRUE]
    /\ UNCHANGED <<clock, hue_ctl, hue_bridge, rules, last_tick, loop, presence_sensor, daylight_times,
                   update_daylight_due, tick, prev_tick, registered_beacons, sensorVars,
                   scan_msg, callVars>>

\* the occupancy of the registry as a call of query() under way meets it
noted(occupancy) ==
    IF asked.i # 0 THEN [asked EXCEPT !.during = @ \cup {occupancy}] ELSE asked

\* _handle_message for a registered beacon (src/jubilee/presence.py lines
\* 116-119): last_seen = now() and 'in' = True
sighting(i) ==
    /\ registered_beacons' = [registered_beacons EXCEPT ![i] = [seen(@, datetime_now) EXCEPT !.in = TRUE]]
    /\ asked' = noted(TRUE)
    /\ UNCHANGED <<clock, hue_ctl, hue_bridge, rules, last_tick, loop, presence_sensor, daylight_times,
                   update_daylight_due, tick, prev_tick, sensorVars, scan_msg, callVars>>

\* _loop for a beacon not seen for longer than the timeout (lines 98-99):
\* 'in' = False
expiry(i) ==
    /\ datetime_now - registered_beacons[i].last_seen > scan_timeout
    /\ registered_beacons' = [registered_beacons EXCEPT ![i].in = FALSE]
    /\ asked' = noted(\E j \in DOMAIN registered_beacons : j # i /\ registered_beacons[j].in)
    /\ UNCHANGED <<clock, hue_ctl, hue_bridge, rules, last_tick, loop, presence_sensor, daylight_times,
                   update_daylight_due, tick, prev_tick, sensorVars, scan_msg, callVars>>

\* two beacons are registered, as in src/run.py lines 128-129
InitQuery ==
    /\ clock = 0
    /\ rules = <<>> /\ last_tick = 0 /\ presence_sensor = "sensor" /\ loop = NoLoop
    /\ asked = NoQuery /\ hue_ctl = NoHueCtl /\ hue_bridge = NoHueBridge
    /\ daylight_times = [sunrise |-> 0, sunset |-> 0] /\ update_daylight_due = 0
    /\ tick = NoTick /\ prev_tick = [now |-> -1, dispatched |-> {}]
    /\ registered_beacons = <<[owner |-> "Richard", ID |-> "B1", last_seen |-> 0, in |-> FALSE],
                              [owner |-> "Michelle", ID |-> "B2", last_seen |-> 0, in |-> FALSE]>>
    /\ SensorConstructed
    /\ call = NoCall /\ home = NoHome

NextQuery ==
    \/ query_enter
    \/ query_read
    \/ query_return
    \/ \E i \in DOMAIN registered_beacons : sighting(i)
    \/ \E i \in DOMAIN registered_beacons : expiry(i)
    \/ sensor_time_passes

SpecQuery == InitQuery /\ [][NextQuery]_vars

\* ---- PresenceSensor.query(beacon_owner), lines 90-93
\* the owners a caller may ask for; nobody registers a beacon to "Guest"
Owners == {"Richard", "Michelle"}

\* for b in self.registered_beacons: if b['owner'] == beacon_owner: return
\* b['in']; a loop that ends without a match falls off the end of the
\* function, which returns None
query_owner(beacon_owner) ==
    IF \E i \in DOMAIN registered_beacons : registered_beacons[i].owner = beacon_owner
    THEN LET first == CHOOSE i \in DOMAIN registered_beacons :
                         /\ registered_beacons[i].owner = beacon_owner
                         /\ \A j \in DOMAIN registered_beacons :
                               registered_beacons[j].owner = beacon_owner => i <= j
         IN IF registered_beacons[first].in THEN "True" ELSE "False"
    ELSE "None"

\* a caller asks query(beacon_owner)
ask_owner(beacon_owner) ==
    /\ call' = [NoCall EXCEPT !.fn = "query_owner", !.arg = beacon_owner,
                              !.result = query_owner(beacon_owner)]
    /\ UNCHANGED <<clock, ctlVars, registered_beacons, sensorVars, scan_msg, stop_pc, ret, home>>

\* any registry of up to MaxBeacons beacons, each registered to one of the
\* owners and seen or not
InitOwner ==
    /\ clock = 0
    /\ rules = <<>> /\ last_tick = 0 /\ presence_sensor = "sensor" /\ loop = NoLoop
    /\ asked = NoQuery /\ hue_ctl = NoHueCtl /\ hue_bridge = NoHueBridge
    /\ daylight_times = [sunrise |-> 0, sunset |-> 0] /\ update_daylight_due = 0
    /\ tick = NoTick /\ prev_tick = [now |-> -1, dispatched |-> {}]
    /\ \E n \in 0 .. MaxBeacons :
          \E owners \in [1 .. n -> Owners], ins \in [1 .. n -> BOOLEAN] :
             registered_beacons =
                [k \in 1 .. n |-> [owner |-> owners[k], ID |-> k, last_seen |-> 0, in |-> ins[k]]]
    /\ SensorConstructed
    /\ call = NoCall /\ home = NoHome

NextOwner == \E beacon_owner \in Owners \cup {"Guest"} : ask_owner(beacon_owner)

SpecOwner == InitOwner /\ [][NextOwner]_vars

\* ============================================================ claims on PresenceSensor
\* C2: last_one_out_callback is invoked only by a sweep before which some
\* beacon had 'in' == True, and never before the first welcome callback.
C2_ByeOnlyAfterOccupied ==
    \A e \in bye_log : e.occupied_before /\ e.welcomed

\* C3: under every interleaving of the sighting thread and the sweep, each
\* change of a beacon's 'in' flag from False to True is answered by exactly
\* one welcome_callback: a welcome is outstanding only while the handler
\* stands between the flip and the call for that beacon, and no call is made
\* without a flip.
C3_WelcomeOncePerArrival ==
    \A id \in BeaconIDs :
        /\ welcome_owed[id] \in {0, 1}
        /\ welcome_owed[id] = 1 =>
               (scan_pc = "welcome" /\ registered_beacons[scan_b].ID = id)

C3_Witness ==
    /\ scan_pc = "while"
    /\ welcome_log # {} /\ bye_log # {}
    /\ query
    /\ lock = "sweep"

\* C4: each time the set of beacons with 'in' == True goes from non-empty to
\* empty, last_one_out_callback is invoked exactly once: when the sweep is
\* between passes, or has ended, no callback is outstanding and none was made
\* without such a change.
C4_ByeOncePerVacancy ==
    sweep_pc \in {"top", "crashed"} => bye_owed = 0

\* C5: in src/jubilee/presence.py a sighting of a registered beacon whose
\* 'in' flag is already True invokes no callback.
C5_ResightNoCallback ==
    \A e \in welcome_log : ~e.was_in

\* C12: neither welcome_callback nor last_one_out_callback is invoked after
\* stop() has begun.
C12_NoCallbackAfterStop ==
    /\ \A e \in welcome_log : ~e.stopping
    /\ \A e \in bye_log : ~e.stopping

\* C13: after start(), a call of stop() eventually returns under fair
\* scheduling, also when no further sighting is delivered.
C13_StopReturns ==
    (stop_pc = "join_scan_thread") ~> (stop_pc = "returned")

\* C15: register_beacon with an identity that is already registered reports
\* a duplicate-registration error to its caller and leaves the registry as it
\* is; with a new identity it inserts exactly one record.
C15_DuplicateReported ==
    ret.called =>
        IF ret.duplicate
        THEN ret.value = "DuplicateBeaconError" /\ ret.inserted = 0
        ELSE ret.inserted = 1

\* the identities in the registry
registered_ids == {registered_beacons[i].ID : i \in DOMAIN registered_beacons}

\* C16: a sighting whose identity is not registered changes no record's
\* last_seen or 'in' flag, invokes no callback and raises no error: the step
\* that reads such a message leaves the registry and the record of the
\* callbacks as they are, and the handler is back in its loop.
C16_UnknownSightingDropped ==
    [][ (scan_pc = "readline" /\ scan_msg' # "" /\ scan_msg' \notin registered_ids)
            => /\ registered_beacons' = registered_beacons
               /\ UNCHANGED histVars
               /\ scan_pc' \in {"while", "readline"} ]_vars

\* a message of a beacon nobody registered has been dropped while a
\* registered beacon is at home
C16_Witness ==
    /\ scan_msg = "B9" /\ scan_pc = "while"
    /\ query

\* C24: at the moment an invocation of last_one_out_callback starts, no
\* registered beacon has 'in' True.
C24_EmptyWhenByeStarts ==
    sweep_pc = "callback" => \A i \in DOMAIN registered_beacons : ~registered_beacons[i].in

\* C26: every write of a record's last_seen or 'in' is made by a thread that
\* holds the lock: while the sweep holds it, the only record written is the
\* one the sweep is at, in the sweep's own step.
C26_WritesUnderLock ==
    [][lock = "sweep" =>
          \A i \in DOMAIN registered_beacons :
             (registered_beacons'[i] # registered_beacons[i]) =>
                 (sweep_pc = "pass" /\ sweep_i = i /\ sweep_i' = i + 1)]_vars

C29_InMeansFresh ==
    sweep_pc = "edge" =>
        \A i \in DOMAIN registered_beacons :
            registered_beacons[i].in =>
                sweep_now - registered_beacons[i].last_seen < scan_timeout

\* C30: only a step of the sweep at record i changes its 'in' from True to
\* False, and only the sighting thread's line 152 for record i changes it
\* from False to True.
C30_FlagWriters ==
    [][\A i \in DOMAIN registered_beacons :
          /\ (registered_beacons[i].in /\ ~registered_beacons'[i].in) =>
                (sweep_pc = "pass" /\ lock = "sweep" /\ sweep_i = i /\ sweep_i' = i + 1)
          /\ (~registered_beacons[i].in /\ registered_beacons'[i].in) =>
                (scan_pc = "set_in" /\ scan_b = i /\ scan_pc' = "welcome")]_vars

\* a beacon was marked 'in' by a sighting and welcomed, and a sweep has since
\* marked every beacon as away
C30_Witness ==
    /\ welcome_log # {} /\ registered_beacons # <<>>
    /\ \A i \in DOMAIN registered_beacons : ~registered_beacons[i].in
    /\ sweep_pc = "edge" /\ scan_pc = "while"

\* C27: the value a call of query() returns is the occupancy the registry
\* had at some instant during the call, never a combination of records read
\* before and after a write of the sensor's threads.
C27_QueryIsOneInstant ==
    asked.done => asked.occupied \in asked.during

\* C35: the sweep thread never ends abnormally while the sensor is on: every
\* pass completes whatever the registry holds, also a first pass that finds
\* no fresh beacon.
C35_SweepNeverCrashes ==
    sweep_pc # "crashed"

\* C38: query(owner) returns True if and only if at least one beacon
\* registered to that owner has 'in' == True, also when several beacons are
\* registered to one owner, and it returns a boolean for every owner.
C38_QueryOwner ==
    call.fn = "query_owner" =>
        /\ call.result \in {"True", "False"}
        /\ (call.result = "True") <=>
              \E i \in DOMAIN registered_beacons :
                 registered_beacons[i].owner = call.arg /\ registered_beacons[i].in

\* ================================================= the Bridge, call by call
\* The main thread (run.py, line 155: controller.loop_once) dispatches firing
\* rules through _ActionHandler.apply_action while the threads of the
\* presence sensor call welcome_home and bye (run.py, lines 43-56).  Every
\* public method of Bridge runs under the class's lock (sync, lines 367-372).
notHome == <<clock, ctlVars, registered_beacons, sensorVars, scan_msg, stop_pc, ret, call>>

\* the rules a tick may find firing
FiringRules == <<[action |-> "on", lights |-> <<>>],
                 [action |-> "on", lights |-> <<"Hall", "Kitchen">>],
                 [action |-> "off", lights |-> <<"Kitchen", "Hall">>],
                 [action |-> "off", lights |-> <<"Hall", "Attic">>],
                 [action |-> "scene", scene |-> "evening"]>>

\* the calls of Bridge methods apply_action makes for a rule, in order, each
\* with the lights the method switches (lines 349-362, 540-548, 520-525)
bridge_calls(rule) ==
    IF rule.action = "scene"
    THEN <<[op |-> "scene", named |-> SelectSeq(LIGHTS, LAMBDA l : l \in SCENES[rule.scene])]>>
    ELSE IF Len(rule.lights) = 0
    THEN <<[op |-> rule.action, named |-> LIGHTS]>>
    ELSE [k \in DOMAIN rule.lights |-> [op |-> rule.action, named |-> <<rule.lights[k]>>]]

\* what the callbacks of run.py call: welcome_home switches the welcome
\* lights or every light on, bye switches every light off
welcome_lights == <<"Hall">>
CallbackCalls == <<[op |-> "on", named |-> welcome_lights],
                   [op |-> "on", named |-> LIGHTS],
                   [op |-> "off", named |-> LIGHTS]>>

\* loop_once hands a firing rule to apply_action
dispatch_begin(r) ==
    /\ home.main = "idle" /\ home.dispatches < MaxDispatches
    /\ home' = [home EXCEPT !.main = "next", !.rule = r, !.k = 1, !.dispatches = @ + 1]
    /\ UNCHANGED notHome

\* apply_action calls the next Bridge method: sync takes the lock
dispatch_enter ==
    /\ home.main = "next" /\ home.k <= Len(bridge_calls(FiringRules[home.rule]))
    /\ home.lock = "free"
    /\ home' = [home EXCEPT !.lock = "main", !.main = "in", !.j = 1]
    /\ UNCHANGED notHome

\* `for light in named_lights: self.lights[light].on(transition)`: one light
\* is switched; an unknown name raises KeyError, which ends the dispatch
dispatch_switch ==
    /\ home.main = "in"
    /\ LET c == bridge_calls(FiringRules[home.rule])[home.k]
       IN /\ home.j <= Len(c.named)
          /\ IF c.named[home.j] \in KnownLights
             THEN home' = [home EXCEPT !.j = @ + 1,
                              !.log = Append(@, [by |-> "main", n |-> home.dispatches, op |-> c.op, light |-> c.named[home.j]])]
             ELSE home' = [home EXCEPT !.lock = "free", !.main = "idle"]
    /\ UNCHANGED notHome

\* the Bridge method returns: sync releases the lock
dispatch_exit ==
    /\ home.main = "in"
    /\ home.j > Len(bridge_calls(FiringRules[home.rule])[home.k].named)
    /\ home' = [home EXCEPT !.lock = "free", !.main = "next", !.k = @ + 1]
    /\ UNCHANGED notHome

\* apply_action returns
dispatch_end ==
    /\ home.main = "next" /\ home.k > Len(bridge_calls(FiringRules[home.rule]))
    /\ home' = [home EXCEPT !.main = "idle"]
    /\ UNCHANGED notHome

\* a thread of the presence sensor calls welcome_home or bye
callback_begin(c) ==
    /\ home.cb = "idle" /\ home.callbacks < MaxCallbacks
    /\ home' = [home EXCEPT !.cb = "call", !.cb_call = c, !.callbacks = @ + 1]
    /\ UNCHANGED notHome

\* bridge.light_on / light_off of the callback: sync takes the lock
callback_enter ==
    /\ home.cb = "call" /\ home.lock = "free"
    /\ home' = [home EXCEPT !.lock = "callback", !.cb = "in", !.cb_j = 1]
    /\ UNCHANGED notHome

callback_switch ==
    /\ home.cb = "in"
    /\ LET c == CallbackCalls[home.cb_call]
       IN /\ home.cb_j <= Len(c.named)
          /\ home' = [home EXCEPT !.cb_j = @ + 1,
                         !.log = Append(@, [by |-> "callback", n |-> 0, op |-> c.op, light |-> c.named[home.cb_j]])]
    /\ UNCHANGED notHome

callback_exit ==
    /\ home.cb = "in" /\ home.cb_j > Len(CallbackCalls[home.cb_call].named)
    /\ home' = [home EXCEPT !.lock = "free", !.cb = "idle"]
    /\ UNCHANGED notHome

\* the system of run.py once the bridge, the controller and the sensor are
\* constructed
InitHome ==
    InitSensor

NextHome ==
    \/ \E r \in DOMAIN FiringRules : dispatch_begin(r)
    \/ dispatch_enter
    \/ dispatch_switch
    \/ dispatch_exit
    \/ dispatch_end
    \/ \E c \in DOMAIN CallbackCalls : callback_begin(c)
    \/ callback_enter
    \/ callback_switch
    \/ callback_exit

SpecHome == InitHome /\ [][NextHome]_vars

\* C14: a light_on/light_off of the welcome or last-one-out callback is never
\* executed between two actuator calls of the dispatch of one firing rule.
C14_DispatchNotInterleaved ==
    \A a, b, c \in DOMAIN home.log :
        (a < b /\ b < c /\ home.log[a].by = "main" /\ home.log[c].by = "main"
               /\ home.log[a].n = home.log[c].n)
            => home.log[b].by = "main"

\* ============================================ Bridge.lock, light by light
\* Every public method of Bridge is wrapped by sync(lock) (lines 367-372):
\* `with lock: return f(*args, **kargs)`, which releases the lock when f
\* returns and when f raises.  Inside the lock the method visits its lights
\* one after the other.  The main thread dispatches rules (light_on,
\* light_off, recall_local_scene) and, in save_scene.py, saves a scene; the
\* threads of the presence sensor switch lights on and off (run.py, 43-56).
BridgeThreads == {"main", "callback"}

\* the lights that are _LightifyLight objects; the others are _HueLight
LightifyLights == {"Kitchen"}

\* the methods under the lock, each with the lights it visits; the main
\* thread calls any of them, a callback the first two
BridgeOps ==
    <<[op |-> "light_on", named |-> LIGHTS],
      [op |-> "light_off", named |-> LIGHTS],
      [op |-> "recall_local_scene", named |-> SelectSeq(LIGHTS, LAMBDA l : l \in SCENES["evening"])],
      [op |-> "save_scene_locally", named |-> LIGHTS]>>

\* what a light can answer to one request: the request raises (a socket or
\* HTTP error), or it is answered; a status request to a Lightify light may
\* (light.save_state(), lines 500 and 523) may also be answered with bytes that
\* struct.unpack does not accept
Replies(o, light) ==
    {"ok", "raises"} \cup
       (IF /\ BridgeOps[o].op \in {"recall_local_scene", "save_scene_locally"}
           /\ light \in LightifyLights
        THEN {"malformed"} ELSE {})

\* no method of the Bridge is running; retried tells that the thread's
\* current call has been round the loop of save_state more than once
NoBridge ==
    [lock |-> "free",
     pc |-> [t \in BridgeThreads |-> "idle"],
     op |-> [t \in BridgeThreads |-> 0],
     i |-> [t \in BridgeThreads |-> 0],
     retried |-> [t \in BridgeThreads |-> FALSE],
     done |-> [t \in BridgeThreads |-> 0]]

\* a thread calls a method of the Bridge: _wrapper reaches `with lock`
bridge_call(t, o) ==
    /\ home.pc[t] = "idle"
    /\ home.done[t] < (IF t = "main" THEN MaxDispatches + 1 ELSE MaxCallbacks)
    /\ home' = [home EXCEPT !.pc[t] = "waiting", !.op[t] = o, !.done[t] = @ + 1]
    /\ UNCHANGED notHome

\* `with lock` takes the lock
bridge_acquire(t) ==
    /\ home.pc[t] = "waiting" /\ home.lock = "free"
    /\ home' = [home EXCEPT !.lock = t, !.pc[t] = "in", !.i[t] = 1, !.retried[t] = FALSE]
    /\ UNCHANGED notHome

\* the method handles its next light.  A request that raises ends the method
\* and `with` releases the lock.  _LightifyLight.save_state (lines 787-795):
\* `while True:` send the status command; on struct.error log, sleep 0.1 s
\* and go round again; leave the loop only on a reply that unpacks.
bridge_light(t, reply) ==
    /\ home.pc[t] = "in" /\ home.i[t] <= Len(BridgeOps[home.op[t]].named)
    /\ reply \in Replies(home.op[t], BridgeOps[home.op[t]].named[home.i[t]])
    /\ home' = IF reply = "ok" THEN [home EXCEPT !.i[t] = @ + 1]
               ELSE IF reply = "malformed" THEN [home EXCEPT !.pc[t] = "sleeping"]
               ELSE [home EXCEPT !.lock = "free", !.pc[t] = "idle"]
    /\ UNCHANGED notHome

\* time.sleep(0.1) is over: round the `while True` again
bridge_retry(t) ==
    /\ home.pc[t] = "sleeping"
    /\ home' = [home EXCEPT !.pc[t] = "in", !.retried[t] = TRUE]
    /\ UNCHANGED notHome

\* the method returns and `with` releases the lock
bridge_return(t) ==
    /\ home.pc[t] = "in" /\ home.i[t] > Len(BridgeOps[home.op[t]].named)
    /\ home' = [home EXCEPT !.lock = "free", !.pc[t] = "idle"]
    /\ UNCHANGED notHome

InitBridgeLock ==
    /\ clock = 0
    /\ rules = <<>> /\ last_tick = 0 /\ presence_sensor = "sensor" /\ loop = NoLoop /\ asked = NoQuery
    /\ hue_ctl = NoHueCtl /\ hue_bridge = NoHueBridge
    /\ daylight_times = [sunrise |-> 0, sunset |-> 0] /\ update_daylight_due = 0
    /\ tick = NoTick /\ prev_tick = [now |-> -1, dispatched |-> {}]
    /\ registered_beacons = <<>>
    /\ SensorConstructed
    /\ call = NoCall /\ home = NoBridge

\* one step of a thread that is inside a call of a Bridge method
bridge_step(t) ==
    \/ bridge_acquire(t)
    \/ \E reply \in {"ok", "raises", "malformed"} : bridge_light(t, reply)
    \/ bridge_retry(t)
    \/ bridge_return(t)

NextBridgeLock ==
    \E t \in BridgeThreads :
       \/ \E o \in (IF t = "main" THEN DOMAIN BridgeOps ELSE {1, 2}) : bridge_call(t, o)
       \/ bridge_step(t)

\* a thread that can take a step is scheduled in the end; nothing obliges a
\* thread to call the Bridge, nor a light to answer well
SpecBridgeLockFair ==
    InitBridgeLock /\ [][NextBridgeLock]_vars /\ \A t \in BridgeThreads : WF_vars(bridge_step(t))

\* C40: every Bridge operation that takes Bridge.lock eventually releases
\* it, whether it returns or raises and even if a Lightify light keeps
\* answering with a malformed status reply: the lock, once taken, becomes
\* free again, so a thread waiting for it is not blocked forever.
C40_LockEventuallyReleased ==
    (home.lock # "free") ~> (home.lock = "free")

\* ====================================================== DaylightSensor, call by call
\* lines 73-76 with both ends of the day counted as daylight
is_daylight_inclusive(time, sunrise, sunset) == (time >= sunrise) /\ (time <= sunset)

\* lines 73-76: (time > sunrise) and (time < sunset)
is_daylight(time, sunrise, sunset) == (time > sunrise) /\ (time < sunset)

\* DaylightSensor.query(time) on sensor state s = [times, due], lines 62-76
daylight_query(s, time, outcome) ==
    LET r == IF time > s.due
             THEN get_daylight_times(s, time \div DayLen, outcome)
             ELSE [times |-> s.times, due |-> s.due, raised |-> "none"]
        sunrise == replace_date(r.times.sunrise, time \div DayLen)
        sunset == replace_date(r.times.sunset, time \div DayLen)
    IN [times |-> r.times, due |-> r.due, raised |-> r.raised,
        value |-> is_daylight(time, sunrise, sunset)]

\* the lookup a call makes: none unless the cached times are due
lookups_for(time) ==
    IF time > update_daylight_due THEN LookupOutcomes ELSE {[NoLookup EXCEPT !.kind = "none"]}

\* a caller asks query(time), for the time of the clock or any other
query_daylight(time) ==
    \E outcome \in lookups_for(time) :
        LET r == daylight_query([times |-> daylight_times, due |-> update_daylight_due],
                                time, outcome)
        IN /\ daylight_times' = r.times
           /\ update_daylight_due' = r.due
           /\ call' = [fn |-> "query", arg |-> time,
                       result |-> IF r.raised = "none" THEN r.value ELSE FALSE,
                       raised |-> r.raised, lookup |-> outcome.kind, before |-> daylight_times,
                       at |-> utcnow, attempted |-> last_attempt(call)]
           /\ UNCHANGED <<clock, hue_ctl, hue_bridge, rules, last_tick, asked, loop, presence_sensor, tick, prev_tick, registered_beacons,
                          sensorVars, scan_msg, stop_pc, ret, home>>

\* a caller asks sunrise() or sunset()
sunrise_sunset(edge) ==
    \E outcome \in lookups_for(utcnow) :
        LET r == sun_time([times |-> daylight_times, due |-> update_daylight_due], edge, outcome)
        IN /\ daylight_times' = r.times
           /\ update_daylight_due' = r.due
           /\ call' = [fn |-> edge, arg |-> utcnow,
                       result |-> IF r.raised = "none" THEN r.value ELSE 0,
                       raised |-> r.raised, lookup |-> outcome.kind, before |-> daylight_times,
                       at |-> utcnow, attempted |-> last_attempt(call)]
           /\ UNCHANGED <<clock, hue_ctl, hue_bridge, rules, last_tick, asked, loop, presence_sensor, tick, prev_tick, registered_beacons,
                          sensorVars, scan_msg, stop_pc, ret, home>>

\* DaylightSensor.__init__ with a first lookup that succeeds
InitDaylight ==
    /\ clock = 0
    /\ rules = <<>> /\ last_tick = 0 /\ presence_sensor = "sensor" /\ loop = NoLoop /\ asked = NoQuery
    /\ hue_ctl = NoHueCtl /\ hue_bridge = NoHueBridge
    /\ \E o \in LookupOk :
          LET r == get_daylight_times([times |-> <<>>, due |-> 0], today_day, o)
          IN daylight_times = r.times /\ update_daylight_due = r.due
    /\ tick = NoTick /\ prev_tick = [now |-> -1, dispatched |-> {}]
    /\ registered_beacons = <<>>
    /\ SensorConstructed
    /\ call = NoCall /\ home = NoHome

NextDaylight ==
    \/ advance
    \/ \E time \in 0 .. MaxTime : query_daylight(time)
    \/ \E edge \in {"sunrise", "sunset"} : sunrise_sunset(edge)

SpecDaylight == InitDaylight /\ [][NextDaylight]_vars

\* C17: query(t) is True if and only if sunrise < t < sunset, for the cached
\* sunrise and sunset moved to the day of t.
C17_QueryStrictlyBetween ==
    (call.fn = "query" /\ call.raised = "none") =>
        (call.result <=>
            /\ replace_date(daylight_times.sunrise, call.arg \div DayLen) < call.arg
            /\ call.arg < replace_date(daylight_times.sunset, call.arg \div DayLen))

\* query(t) has answered False for a t that is exactly the sunset of its day,
\* from times cached on an earlier day
C17_Witness ==
    /\ call.fn = "query" /\ call.raised = "none" /\ ~call.result
    /\ call.arg = replace_date(daylight_times.sunset, call.arg \div DayLen)
    /\ daylight_times.sunset \div DayLen < call.arg \div DayLen

\* C18: when a refresh fails (network error, HTTP error or malformed
\* response), query(), sunrise() and sunset() do not raise and the cached
\* times stay as they were.
C18_StaleOnFailure ==
    (call.fn # "none" /\ call.lookup \in {"unreachable", "malformed"}) =>
        (call.raised = "none" /\ daylight_times = call.before)

\* C31: a lookup is attempted only when the cached times are more than 24
\* hours old, and after an attempt, successful or failed, no other lookup is
\* attempted within the next 24 hours: a call made with the time of the clock
\* that attempts a lookup comes at least 24 hours after the attempt before.
C31_OneLookupPer24h ==
    (call.fn # "none" /\ call.lookup # "none" /\ call.arg = call.at) =>
        call.at - call.attempted >= Hours24

\* ================================ Daylight rules: src/hue.py beside src/jubilee/lights.py
\* the two controllers are constructed at the same time of the first day,
\* over one DaylightSensor whose first lookup succeeds
InitEdge ==
    /\ clock \in 0 .. DayLen - 1
    /\ rules = <<>> /\ last_tick = utcnow /\ presence_sensor = "sensor" /\ loop = NoLoop
    /\ asked = NoQuery /\ hue_ctl = NoHueCtl /\ hue_bridge = NoHueBridge
    /\ \E o \in LookupOk :
          LET r == get_daylight_times([times |-> <<>>, due |-> 0], today_day, o)
          IN daylight_times = r.times /\ update_daylight_due = r.due
    /\ tick = NoTick /\ prev_tick = [now |-> -1, dispatched |-> {}]
    /\ registered_beacons = <<>>
    /\ SensorConstructed
    /\ call = NoCall /\ home = NoHome

\* src/hue.py lines 181-185: a daylight rule on edge fires when the daylight
\* boolean differs from the one of the tick before and matches the edge
edge_flip(last_tick_daylight, daylight, edge) ==
    /\ last_tick_daylight # daylight
    /\ \/ (edge = "sunset") /\ ~daylight
       \/ (edge = "sunrise") /\ daylight

\* one tick of both controllers with the same now, for a Daylight rule
\* without offset on each edge: hue.Controller.loop_once reads
\* daylight_sensor.query() (line 174), jubilee.lights.Controller.loop_once
\* reads sunrise()/sunset() (lines 233-236) and tests line 249
edge_tick ==
    \E outcome \in {o \in lookups_for(utcnow) : o.kind # "malformed"} :
        LET q == daylight_query([times |-> daylight_times, due |-> update_daylight_due],
                                utcnow, outcome)
            s == [times |-> q.times, due |-> q.due]
        IN /\ daylight_times' = q.times
           /\ update_daylight_due' = q.due
           /\ last_tick' = utcnow
           /\ hue_ctl' =
                 [last_tick_daylight |-> q.value,
                  ticked |-> TRUE,
                  flipped |-> {e \in {"sunrise", "sunset"} :
                                  edge_flip(hue_ctl.last_tick_daylight, q.value, e)},
                  passed |-> {e \in {"sunrise", "sunset"} :
                                  trigger_passed(last_tick, sun_time(s, e, outcome).value, utcnow)}]
           /\ UNCHANGED <<clock, rules, hue_bridge, asked, loop, presence_sensor, tick, prev_tick,
                          registered_beacons, sensorVars, scan_msg, callVars>>

NextEdge == advance \/ edge_tick

SpecEdge == InitEdge /\ [][NextEdge]_vars

\* C32: for a Daylight rule without offset, the edge-flip formulation of
\* src/hue.py and the window formulation of src/jubilee/lights.py fire on
\* exactly the same ticks of every tick sequence, the first tick after
\* construction included.
C32_EdgeFlipEqualsWindow ==
    hue_ctl.ticked => hue_ctl.flipped = hue_ctl.passed

\* ======================= hue.Bridge as an iterator, under the lock of src/controller.py
\* the threads of src/controller.py: the main loop (line 59) and the thread of
\* the presence sensor, which calls welcome_home and bye
HueThreads == {"main", "sensor"}

\* a `with` that takes no lock
held_by_nobody(t) == "free"

\* `with lock:` (src/controller.py lines 20, 30, 59): the lock is t's
held_by(t) == t

\* what the other variables of the model do in a step of these threads
hueFrame ==
    UNCHANGED <<clock, rules, last_tick, hue_ctl, asked, loop, presence_sensor, daylight_times,
                update_daylight_due, tick, prev_tick, registered_beacons, sensorVars, scan_msg,
                callVars>>

\* a thread enters its `with lock:` block once the lock is free.  job is what
\* its first `for light in bridge` does to each light: on for a triggered on
\* rule (src/hue.py line 218) and for welcome_home after dark (src/controller.py
\* line 26), off for an off rule (line 225) and for bye (line 32)
hue_acquire(t, job) ==
    /\ hue_bridge.pc[t] = "idle" /\ hue_bridge.lock = "free"
    /\ hue_bridge' = [hue_bridge EXCEPT !.lock = held_by(t), !.pc[t] = "iter",
                                        !.job[t] = job, !.loops[t] = 0]
    /\ hueFrame

\* Bridge.__iter__ (src/hue.py lines 395-400): self.counter = -1
hue_iter(t) ==
    /\ hue_bridge.pc[t] = "iter"
    /\ hue_bridge' = [hue_bridge EXCEPT !.counter = -1, !.visited[t] = <<>>,
                                        !.loops[t] = @ + 1, !.pc[t] = "next"]
    /\ hueFrame

\* Bridge.next (lines 402-406) and the body of the for loop: the counter goes
\* up by one; at num_lights the loop ends (StopIteration), beyond it
\* lights_list[counter] raises IndexError, which ends the thread's block
hue_next(t) ==
    /\ hue_bridge.pc[t] = "next"
    /\ LET counter == hue_bridge.counter + 1
           num_lights == Len(LIGHTS)
       IN IF counter >= num_lights
          THEN hue_bridge' = [hue_bridge EXCEPT
                                 !.counter = counter,
                                 !.pc[t] = "after",
                                 !.skewed = @ \/ hue_bridge.visited[t] # LIGHTS
                                              \/ counter > num_lights]
          ELSE hue_bridge' = [hue_bridge EXCEPT
                                 !.counter = counter,
                                 !.visited[t] = Append(@, LIGHTS[counter + 1]),
                                 !.lit = IF hue_bridge.job[t] = "on"
                                         THEN @ \cup {LIGHTS[counter + 1]}
                                         ELSE @ \ {LIGHTS[counter + 1]}]
    /\ hueFrame

\* src/hue.py lines 236-240: after the rule's action, with nobody home, the
\* controller switches every light off again in a second for loop
hue_again ==
    /\ hue_bridge.pc["main"] = "after" /\ hue_bridge.loops["main"] = 1
    /\ hue_bridge' = [hue_bridge EXCEPT !.pc["main"] = "iter", !.job["main"] = "off"]
    /\ hueFrame

\* the end of the `with lock:` block
hue_release(t) ==
    /\ hue_bridge.pc[t] = "after"
    /\ hue_bridge' = [hue_bridge EXCEPT !.lock = "free", !.pc[t] = "idle"]
    /\ hueFrame

NextHueBridge ==
    \/ \E t \in HueThreads, job \in {"on", "off"} : hue_acquire(t, job)
    \/ \E t \in HueThreads : hue_iter(t)
    \/ \E t \in HueThreads : hue_next(t)
    \/ hue_again
    \/ \E t \in HueThreads : hue_release(t)

SpecHueBridge == InitSensor /\ [][NextHueBridge]_vars

\* C34: in src/controller.py every execution of welcome_home and bye excludes
\* hue_controller.loop_once, so the iterator of hue.Bridge is never advanced
\* by two threads at once and every `for light in bridge` visits each light
\* exactly once.
C34_OneThreadIterates ==
    /\ \E t \in HueThreads : hue_bridge.pc[t] = "idle"
    /\ \A t \in HueThreads : hue_bridge.pc[t] # "idle" => hue_bridge.lock = t
    /\ ~hue_bridge.skewed
    /\ \A t \in HueThreads : hue_bridge.pc[t] = "after" => hue_bridge.visited[t] = LIGHTS

\* bye has visited both lights while the main thread, whose tick made two for
\* loops, waits for the lock
C34_Witness ==
    /\ hue_bridge.pc["sensor"] = "after" /\ hue_bridge.job["sensor"] = "off"
    /\ hue_bridge.visited["sensor"] = LIGHTS
    /\ hue_bridge.pc["main"] = "idle" /\ hue_bridge.loops["main"] = 2
    /\ hue_bridge.lock = "sensor"

\* ============================================== UKTimeZone.dst on calendar dates
\* The controller above runs on a short time axis; here dst(dt) is computed
\* as the code computes it, from the calendar of dt's year.  A datetime is a
\* record [year, month, day, hour].
FirstYear == 2015
LastYear == 2017
DstHours == {0, 1, 2, 23}

is_leap(year) == (year % 4 = 0) /\ ((year % 100 # 0) \/ (year % 400 = 0))

days_in_month(year, month) ==
    IF month = 2 THEN (IF is_leap(year) THEN 29 ELSE 28)
    ELSE IF month \in {4, 6, 9, 11} THEN 30 ELSE 31

RECURSIVE days_before_month(_, _)
days_before_month(year, month) ==
    IF month = 1 THEN 0
    ELSE days_before_month(year, month - 1) + days_in_month(year, month - 1)

\* date.toordinal()
toordinal(year, month, day) ==
    LET y == year - 1
    IN 365 * y + (y \div 4) - (y \div 100) + (y \div 400) + days_before_month(year, month) + day

\* date.weekday(): Monday is 0, Sunday is 6
civil_weekday(year, month, day) == (toordinal(year, month, day) + 6) % 7

\* the order of two datetimes is the order of their hours since day 0
instant(dt) == toordinal(dt.year, dt.month, dt.day) * 24 + dt.hour

\* max(week[-1] for week in calendar.monthcalendar(year, month)): the last
\* column of a week is its Sunday, 0 where that day is outside the month
last_sunday(year, month) ==
    LET sundays == {d \in 1 .. days_in_month(year, month) : civil_weekday(year, month, d) = 6}
                       \cup {0}
    IN CHOOSE d \in sundays : \A e \in sundays : e <= d

\* UKTimeZone.dst of src/jubilee/lights.py, lines 151-168
lights_dst(dt) ==
    LET year == dt.year
        mar == last_sunday(year, 3)
        oct == last_sunday(year, 10)
        dst_start == instant([year |-> year, month |-> 3, day |-> mar, hour |-> 1])
        dst_end == instant([year |-> year, month |-> 10, day |-> oct, hour |-> 1])
    IN IF dst_start <= instant(dt) /\ instant(dt) < dst_end THEN DST_OFFSET ELSE 0

\* UKTimeZone.dst of src/hue.py, lines 104-121: DST_END is built with
\* day=last_sunday_mar
hue_dst(dt) ==
    LET year == dt.year
        mar == last_sunday(year, 3)
        oct == last_sunday(year, 10)
        dst_start == instant([year |-> year, month |-> 3, day |-> mar, hour |-> 1])
        dst_end == instant([year |-> year, month |-> 10, day |-> mar, hour |-> 1])
    IN IF dst_start <= instant(dt) /\ instant(dt) < dst_end THEN DST_OFFSET ELSE 0

\* the datetimes dst is asked about
Datetimes ==
    {dt \in [year : FirstYear .. LastYear, month : {2, 3, 4, 10, 11}, day : 1 .. 31,
             hour : DstHours] : dt.day <= days_in_month(dt.year, dt.month)}

InitDst ==
    /\ clock = 0
    /\ rules = <<>> /\ last_tick = 0 /\ presence_sensor = "sensor" /\ loop = NoLoop /\ asked = NoQuery
    /\ hue_ctl = NoHueCtl /\ hue_bridge = NoHueBridge
    /\ daylight_times = [sunrise |-> 0, sunset |-> 0] /\ update_daylight_due = 0
    /\ tick = NoTick /\ prev_tick = [now |-> -1, dispatched |-> {}]
    /\ registered_beacons = <<>>
    /\ SensorConstructed
    /\ home = NoHome
    /\ \E dt \in Datetimes : call = [NoCall EXCEPT !.fn = "datetime", !.arg = dt]

\* both revisions of dst are asked about the same datetime
ask_dst ==
    /\ call.fn = "datetime"
    /\ call' = [call EXCEPT !.fn = "dst",
                            !.result = [lights |-> lights_dst(call.arg), hue |-> hue_dst(call.arg)]]
    /\ UNCHANGED <<clock, ctlVars, registered_beacons, sensorVars, scan_msg, stop_pc, ret, home>>

NextDst == ask_dst

SpecDst == InitDst /\ [][NextDst]_vars

\* dt lies in British Summer Time: from 01:00 on the last Sunday of March to
\* 01:00 on the last Sunday of October of its year
in_summer_time(dt) ==
    \E m, o \in 1 .. 31 :
        /\ m + 7 > 31 /\ civil_weekday(dt.year, 3, m) = 6
        /\ o + 7 > 31 /\ civil_weekday(dt.year, 10, o) = 6
        /\ instant([year |-> dt.year, month |-> 3, day |-> m, hour |-> 1]) <= instant(dt)
        /\ instant(dt) < instant([year |-> dt.year, month |-> 10, day |-> o, hour |-> 1])

\* C19: dst(dt), in src/jubilee/lights.py and in src/hue.py, is the one-hour
\* adjustment exactly from 01:00 on the last Sunday of March to 01:00 on the
\* last Sunday of October of dt's year, and zero otherwise.
C19_DstWindow ==
    call.fn = "dst" =>
        /\ call.result.lights = (IF in_summer_time(call.arg) THEN DST_OFFSET ELSE 0)
        /\ call.result.hue = (IF in_summer_time(call.arg) THEN DST_OFFSET ELSE 0)

====
